---- MODULE Spec2Model ----
(***************************************************************************)
(* Model of the survey-cleaning script edit_data.py (the transformer) and  *)
(* of the loading prologue of statistic.py (the analyzer).                 *)
(*                                                                         *)
(* Strings: the survey's answer strings are Czech.  The module writes them *)
(* in ASCII (diacritics dropped, the en dash written "-"); the renaming is *)
(* one-to-one on the strings the code compares against.  A missing cell    *)
(* (pandas NaN / None) is the value NaN below, which equals no string.     *)
(*                                                                         *)
(* Numbers: eq_hs_income is a quotient of an integer and a multiple of     *)
(* 0.1; it is kept as an exact fraction num/den, and cons_unit is kept in  *)
(* tenths.                                                                 *)
(***************************************************************************)
EXTENDS Integers, Sequences, FiniteSets, TLC

VARIABLES
    pc,             \* the statement the script executes next
    x,              \* argument of the is_middle_income lambda: [num, den]
    flag,           \* its result (0 until the lambda ran)
    income_in,      \* argument of getAvgForIncomeRange
    saving_in,      \* argument of getAvgForSavingRange
    avg_income,     \* result of getAvgForIncomeRange (0 until the call)
    avg_savings,    \* result of getAvgForSavingRange (0 until the call)
    raw,            \* the rows of the input file as read by pd.read_csv
    df,             \* the table the script transforms, one record per row
    picks,          \* per respondent, the choices ticked in the question
    dataframe,      \* splitMultipleChoice: the frame passed in
    exploded,       \* splitMultipleChoice: local of line 96
    dummies,        \* splitMultipleChoice: local of line 97
    binary_matrix,  \* splitMultipleChoice: local of line 98
    merged,         \* splitMultipleChoice: the frame returned
    script,         \* the script that runs: "edit_data" or "statistic"
    file_path,      \* the path typed at the prompt
    fs,             \* the file system: path -> [kind, data]
    original,       \* the entry of fs at file_path when the run starts
    console,        \* the lines printed so far
    cp,             \* the cp child started by os.popen
    loaded,         \* the content pd.read_csv returned
    writes          \* the paths the run and its child have written

miVars == <<x, flag>>
mapVars == <<income_in, saving_in, avg_income, avg_savings>>
dfVars == <<raw, df>>
splitVars == <<picks, dataframe, exploded, dummies, binary_matrix, merged>>
runVars == <<script, file_path, fs, original, console, cp, loaded, writes>>
vars == <<pc, miVars, mapVars, dfVars, splitVars, runVars>>

NaN == "NaN"

-----------------------------------------------------------------------------
(* Constants of edit_data.py                                               *)

EQUALIZED_INCOME_MEDIAN == 25968
\* MIDDLE_INCOME_LOWER_BOUND = 0.75, kept in hundredths
MIDDLE_INCOME_LOWER_BOUND_PCT == 75
MIDDLE_INCOME_UPPER_BOUND == 2

-----------------------------------------------------------------------------
(* is_middle_income: lambda x : 1 if x > LOWER * MEDIAN                    *)
(*                                 and x < 2 * UPPER * MEDIAN else 0       *)
(* for x = num / den, den > 0.                                             *)

IsMiddleIncomeInclusiveLower(num, den) ==
    IF /\ num * 100 >= MIDDLE_INCOME_LOWER_BOUND_PCT * EQUALIZED_INCOME_MEDIAN * den
       /\ num < 2 * MIDDLE_INCOME_UPPER_BOUND * EQUALIZED_INCOME_MEDIAN * den
    THEN 1 ELSE 0

IsMiddleIncomeSingleUpper(num, den) ==
    IF /\ num * 100 > MIDDLE_INCOME_LOWER_BOUND_PCT * EQUALIZED_INCOME_MEDIAN * den
       /\ num < MIDDLE_INCOME_UPPER_BOUND * EQUALIZED_INCOME_MEDIAN * den
    THEN 1 ELSE 0

IsMiddleIncome(num, den) ==
    IF /\ num * 100 > MIDDLE_INCOME_LOWER_BOUND_PCT * EQUALIZED_INCOME_MEDIAN * den
       /\ num < 2 * MIDDLE_INCOME_UPPER_BOUND * EQUALIZED_INCOME_MEDIAN * den
    THEN 1 ELSE 0

-----------------------------------------------------------------------------
(* Mapping functions                                                       *)

IncomeBrackets ==
    << "< 20 000 Kc",
       "20 000 Kc - 30 000 Kc",
       "30 000 Kc - 40 000 Kc",
       "40 000 Kc - 50 000 Kc",
       "50 000 Kc - 70 000 Kc",
       "70 000 Kc - 90 000 Kc",
       "90 000 Kc - 120 000 Kc" >>

getAvgForIncomeRangeNoTop(input) ==
    IF input = "< 20 000 Kc" THEN 10000
    ELSE IF input = "20 000 Kc - 30 000 Kc" THEN 25000
    ELSE IF input = "30 000 Kc - 40 000 Kc" THEN 35000
    ELSE IF input = "40 000 Kc - 50 000 Kc" THEN 45000
    ELSE IF input = "50 000 Kc - 70 000 Kc" THEN 60000
    ELSE IF input = "70 000 Kc - 90 000 Kc" THEN 80000
    ELSE 140000

getAvgForIncomeRange(input) ==
    IF input = "< 20 000 Kc" THEN 10000
    ELSE IF input = "20 000 Kc - 30 000 Kc" THEN 25000
    ELSE IF input = "30 000 Kc - 40 000 Kc" THEN 35000
    ELSE IF input = "40 000 Kc - 50 000 Kc" THEN 45000
    ELSE IF input = "50 000 Kc - 70 000 Kc" THEN 60000
    ELSE IF input = "70 000 Kc - 90 000 Kc" THEN 80000
    ELSE IF input = "90 000 Kc - 120 000 Kc" THEN 105000
    ELSE 140000

\* The strings getAvgForSavingRange compares its input against, in order.
SavingBrackets ==
    << "Vytvarime deficit (vydaje znatelne prevysuji prijmy)",
       "Nesporime (vydaje se priblizne rovnaji prijmum, +- 500 Kc)",
       "500 az 1 000 Kc",
       "1000 az 3 000 Kc",
       "3 000 az 5 000 Kc",
       "5 000 az 7 000 Kc" >>

getAvgForSavingRangeNoDeficit(input) ==
    IF input = "Nesporime (vydaje se priblizne rovnaji prijmum, +- 500 Kc)" THEN 0
    ELSE IF input = "500 az 1 000 Kc" THEN 750
    ELSE IF input = "1000 az 3 000 Kc" THEN 2000
    ELSE IF input = "3 000 az 5 000 Kc" THEN 4000
    ELSE IF input = "5 000 az 7 000 Kc" THEN 6000
    ELSE 9000

\* The value returned on a match with SavingBrackets[k].
SavingValues == << 0 - 1000, 0, 750, 2000, 4000, 6000 >>

SAVING_FALLBACK == 9000

getAvgForSavingRange(input) ==
    IF \E k \in 1..Len(SavingBrackets) : SavingBrackets[k] = input
    THEN SavingValues[CHOOSE k \in 1..Len(SavingBrackets) : SavingBrackets[k] = input]
    ELSE SAVING_FALLBACK

-----------------------------------------------------------------------------
(* Categorical recoders (lines 57-88)                                      *)

investmentFrequencyMapping(input) ==
    IF input = "Ano, pravidelne" THEN 2
    ELSE IF input = "Ano, prilezitostne" THEN 1
    ELSE 0

encounteredLossesMapping(input) ==
    IF input = "Ano, vyraznymi" THEN 2
    ELSE IF input = "Ano, mensi ztraty" THEN 1
    ELSE 0

riskEncounterFrequencyMapping(input) ==
    IF input = "Casto (vyhledavam nove prilezitosti, i kdyz jsou rizikove)" THEN 3
    ELSE IF input = "Obcas (pokud mam pocit, ze riziko stoji za to)" THEN 2
    ELSE IF input = "Zridka (jen pokud je to nezbytne)" THEN 1
    ELSE 0

decisionStrategyMapping(input) ==
    IF input = "Delam rychla rozhodnuti na zaklade prvnich dojmu" THEN 3
    ELSE IF input = "Rozhoduji se uvazlive, ale nepotrebuji dlouhou dobu" THEN 1
    ELSE IF input = "Zridka (jen pokud je to nezbytne)" THEN 0
    ELSE 2

riskToleranceMappingNoMinimal(input) ==
    IF input = "Rozhodne ano, jsem otevreny vyzvam i riziku samotnemu" THEN 3
    ELSE IF input = "Obcas ano, pokud verim v potencialni prinosy" THEN 2
    ELSE 0

riskToleranceMapping(input) ==
    IF input = "Rozhodne ano, jsem otevreny vyzvam i riziku samotnemu" THEN 3
    ELSE IF input = "Obcas ano, pokud verim v potencialni prinosy" THEN 2
    ELSE IF input = "Spise ne, riskuji jen minimalne" THEN 1
    ELSE 0

-----------------------------------------------------------------------------
(* Value fixes and derived metrics                                         *)

\* Series.replace(old, new) on one cell
Replace(v, old, new) == IF v = old THEN new ELSE v

FixIncomeRange(v) ==
    Replace(v, "70 000 Kc - 120 000 Kc", "90 000 Kc - 120 000 Kc")

FixAdultsMissing(v) == v

FixAdults(v) == Replace(v, 0, 1)

ConsUnitNoFirstAdult(adults, children) == 10 + 5 * adults + 3 * children

\* 1 + 0.5 * (adults - 1) + 0.3 * children, in tenths
ConsUnit(adults, children) == 10 + 5 * (adults - 1) + 3 * children

\* avg_income / cons_unit as a fraction (cons_unit in tenths)
EqHsIncome(income, cons_unit) == [num |-> income * 10, den |-> cons_unit]

-----------------------------------------------------------------------------
(* splitMultipleChoice.  A frame is [columns, rows]: rows is the sequence  *)
(* of rows in index order, each a function from column name to value.  A   *)
(* text cell is the sequence of its tokens, ";" being a token of its own;  *)
(* the empty cell, which pd.read_csv reads as NaN, is the empty sequence.  *)

NoFrame == [columns |-> {}, rows |-> << >>]
NoMatrix == [columns |-> {}, index |-> {}, data |-> << >>]

SEP == ";"

\* the cell a survey export writes for the ticked choices
RECURSIVE Join(_)
Join(p) ==
    IF Len(p) = 0 THEN << >>
    ELSE IF Len(p) = 1 THEN << p[1] >>
    ELSE << p[1], SEP >> \o Join(Tail(p))

RECURSIVE SplitFrom(_, _, _)
SplitFrom(tokens, cur, acc) ==
    IF tokens = << >> THEN Append(acc, cur)
    ELSE IF Head(tokens) = SEP THEN SplitFrom(Tail(tokens), "", Append(acc, cur))
    ELSE SplitFrom(Tail(tokens), cur \o Head(tokens), acc)

\* Series.str.split(";") on one cell: NaN stays NaN
StrSplit(cell) ==
    IF cell = << >> THEN [na |-> TRUE, list |-> << >>]
    ELSE [na |-> FALSE, list |-> SplitFrom(cell, "", << >>)]

\* a column read by pd.read_csv has a string dtype, and a .str accessor,
\* only if some cell of it is not NaN
HasStrAccessor(frame, col) ==
    \E i \in DOMAIN frame.rows : frame.rows[i][col] # << >>

\* DataFrame.explode on one row: one row per list element, the index kept
ExplodeCell(i, sp) ==
    IF sp.na \/ sp.list = << >> THEN << [index |-> i, value |-> NaN] >>
    ELSE [k \in 1..Len(sp.list) |-> [index |-> i, value |-> sp.list[k]]]

RECURSIVE ExplodeFrom(_, _, _)
ExplodeFrom(frame, col, i) ==
    IF i > Len(frame.rows) THEN << >>
    ELSE ExplodeCell(i, frame.rows[i][col]) \o ExplodeFrom(frame, col, i + 1)

Explode(frame, col) == ExplodeFrom(frame, col, 1)

\* a get_dummies that leaves out the rows whose value is NaN
GetDummiesDropNa(ex) ==
    LET cats == { ex[k].value : k \in DOMAIN ex } \ {NaN}
        kept == SelectSeq(ex, LAMBDA e : e.value # NaN)
    IN  [ columns |-> cats,
          rows |-> [k \in DOMAIN kept |->
                      [ index |-> kept[k].index,
                        ind |-> [c \in cats |->
                                   IF kept[k].value = c THEN 1 ELSE 0] ]] ]

\* pd.get_dummies: one column per distinct value, NaN has none
GetDummies(ex) ==
    LET cats == { ex[k].value : k \in DOMAIN ex } \ {NaN}
    IN  [ columns |-> cats,
          rows |-> [k \in DOMAIN ex |->
                      [ index |-> ex[k].index,
                        ind |-> [c \in cats |->
                                   IF ex[k].value = c THEN 1 ELSE 0] ]] ]

RECURSIVE SumFrom(_, _, _, _, _)
SumFrom(dm, keyOf, key, c, k) ==
    IF k > Len(dm.rows) THEN 0
    ELSE (IF keyOf[dm.rows[k].index] = key THEN dm.rows[k].ind[c] ELSE 0)
         + SumFrom(dm, keyOf, key, c, k + 1)

GroupSum(dm, keyOf, key, c) == SumFrom(dm, keyOf, key, c, 1)

\* dummies.groupby(dataframe["id"]).sum(): the key of a row of dummies is
\* the id of the frame row with the same index label
GroupBySum(dm, frame) ==
    LET keyOf == [i \in DOMAIN frame.rows |-> frame.rows[i]["id"]]
        keys == { keyOf[dm.rows[k].index] : k \in DOMAIN dm.rows }
    IN  [ columns |-> dm.columns,
          index |-> keys,
          data |-> [key \in keys |->
                      [c \in dm.columns |-> GroupSum(dm, keyOf, key, c)]] ]

\* dataframe.merge(matrix, left_on = "id", right_index = True): inner join,
\* a column name on both sides gets the suffixes _x (left) and _y (right)
Merge(frame, matrix) ==
    LET both == frame.columns \cap matrix.columns
        LName(c) == IF c \in both THEN c \o "_x" ELSE c
        RName(c) == IF c \in both THEN c \o "_y" ELSE c
        lcols == { LName(c) : c \in frame.columns }
        rcols == { RName(c) : c \in matrix.columns }
        kept == SelectSeq(frame.rows, LAMBDA r : r["id"] \in matrix.index)
        Row(r) ==
            [n \in lcols \cup rcols |->
                IF n \in lcols
                THEN r[CHOOSE c \in frame.columns : LName(c) = n]
                ELSE matrix.data[r["id"]]
                        [CHOOSE c \in matrix.columns : RName(c) = n]]
    IN  [ columns |-> lcols \cup rcols,
          rows |-> [k \in DOMAIN kept |-> Row(kept[k])] ]

-----------------------------------------------------------------------------
(* Inputs                                                                  *)

MaxDen == 10

\* x = whole + delta / den around the two thresholds and away from them
MIWholes == {0, 19475, 19476, 19477, 51936, 103871, 103872, 103873, 140000}

XInputs ==
    { [num |-> w * d + e, den |-> d] :
        w \in MIWholes, d \in 1..MaxDen, e \in {0 - 1, 0, 1} }

RangeOf(seq) == { seq[k] : k \in 1..Len(seq) }

\* the pre-fix label of line 161, an answer above the last compared bracket,
\* an empty string, a missing cell, and a string of another question
IncomeInputs ==
    RangeOf(IncomeBrackets) \cup
    { "70 000 Kc - 120 000 Kc", "> 120 000 Kc", "", NaN, "500 az 1 000 Kc" }

SavingInputs ==
    RangeOf(SavingBrackets) \cup
    { "vice nez 7 000 Kc", "", NaN, "< 20 000 Kc" }

Absent == [kind |-> "absent", data |-> "none"]

RunIdle ==
    /\ script = "none" /\ file_path = "" /\ fs = << >> /\ original = Absent
    /\ console = << >> /\ cp = "none" /\ loaded = "none" /\ writes = {}

-----------------------------------------------------------------------------
(* Specification SpecMI: the is_middle_income lambda applied to one value  *)

MIIdle == x = [num |-> 0, den |-> 1] /\ flag = 0
MapIdle ==
    /\ income_in = NaN /\ saving_in = NaN
    /\ avg_income = 0 /\ avg_savings = 0
DfIdle == raw = << >> /\ df = << >>
SplitIdle ==
    /\ picks = << >> /\ dataframe = NoFrame /\ exploded = << >>
    /\ dummies = NoFrame /\ binary_matrix = NoMatrix /\ merged = NoFrame

InitMI ==
    /\ pc = "is_middle_income" /\ x \in XInputs /\ flag = 0
    /\ MapIdle /\ DfIdle /\ SplitIdle /\ RunIdle

ApplyIsMiddleIncome ==
    /\ pc = "is_middle_income"
    /\ flag' = IsMiddleIncome(x.num, x.den)
    /\ pc' = "done"
    /\ UNCHANGED <<x, mapVars, dfVars, splitVars, runVars>>

NextMI == ApplyIsMiddleIncome

SpecMI == InitMI /\ [][NextMI]_vars

-----------------------------------------------------------------------------
(* Specification SpecMap: lines 169-170 on one cell of each column         *)

InitMap ==
    /\ pc = "avg_income"
    /\ income_in \in IncomeInputs /\ saving_in \in SavingInputs
    /\ avg_income = 0 /\ avg_savings = 0
    /\ MIIdle /\ DfIdle /\ SplitIdle /\ RunIdle

ApplyAvgIncome ==
    /\ pc = "avg_income"
    /\ avg_income' = getAvgForIncomeRange(income_in)
    /\ pc' = "avg_savings"
    /\ UNCHANGED <<miVars, income_in, saving_in, avg_savings, dfVars, splitVars, runVars>>

ApplyAvgSavings ==
    /\ pc = "avg_savings"
    /\ avg_savings' = getAvgForSavingRange(saving_in)
    /\ pc' = "done"
    /\ UNCHANGED <<miVars, income_in, saving_in, avg_income, dfVars, splitVars, runVars>>

NextMap == ApplyAvgIncome \/ ApplyAvgSavings

SpecMap == InitMap /\ [][NextMap]_vars

-----------------------------------------------------------------------------
(* Specification SpecDerive: lines 161-188 on the columns the derived      *)
(* metrics read.  Lines 165-177 write other columns and are not part of    *)
(* it, except avg_income (line 169).                                       *)

MaxRows == 2
MaxAdults == 3
MaxChildren == 2

DeriveIncomes == { "20 000 Kc - 30 000 Kc", "70 000 Kc - 120 000 Kc" }

RawRows ==
    [ income_range : DeriveIncomes,
      household_members_gt13 : 0..MaxAdults,
      household_members_le13 : 0..MaxChildren ]

RawTables == UNION { [1..n -> RawRows] : n \in 1..MaxRows }

\* line 121 and the columns added later, not yet computed
LoadRow(r, i) ==
    [ id |-> i,
      income_range |-> r.income_range,
      household_members_gt13 |-> r.household_members_gt13,
      household_members_le13 |-> r.household_members_le13,
      avg_income |-> 0,
      cons_unit |-> 0,
      eq_hs_income |-> [num |-> 0, den |-> 1],
      is_middle_income |-> 0 ]

InitDerive ==
    /\ pc = "fix"
    /\ raw \in RawTables
    /\ df = [i \in DOMAIN raw |-> LoadRow(raw[i], i)]
    /\ MIIdle /\ MapIdle /\ SplitIdle /\ RunIdle

\* lines 161-162
FixValues ==
    /\ pc = "fix"
    /\ df' = [i \in DOMAIN df |->
                [df[i] EXCEPT
                    !.income_range = FixIncomeRange(@),
                    !.household_members_gt13 = FixAdults(@)]]
    /\ pc' = "avg_income"
    /\ UNCHANGED <<raw, miVars, mapVars, splitVars, runVars>>

\* line 169
AvgIncomeColumn ==
    /\ pc = "avg_income"
    /\ df' = [i \in DOMAIN df |->
                [df[i] EXCEPT
                    !.avg_income = getAvgForIncomeRange(df[i].income_range)]]
    /\ pc' = "cons_unit"
    /\ UNCHANGED <<raw, miVars, mapVars, splitVars, runVars>>

\* line 180
ConsUnitColumn ==
    /\ pc = "cons_unit"
    /\ df' = [i \in DOMAIN df |->
                [df[i] EXCEPT
                    !.cons_unit = ConsUnit(df[i].household_members_gt13,
                                           df[i].household_members_le13)]]
    /\ pc' = "eq_hs_income"
    /\ UNCHANGED <<raw, miVars, mapVars, splitVars, runVars>>

\* line 183
EqHsIncomeColumn ==
    /\ pc = "eq_hs_income"
    /\ df' = [i \in DOMAIN df |->
                [df[i] EXCEPT
                    !.eq_hs_income = EqHsIncome(df[i].avg_income, df[i].cons_unit)]]
    /\ pc' = "is_middle_income"
    /\ UNCHANGED <<raw, miVars, mapVars, splitVars, runVars>>

\* lines 186-188
IsMiddleIncomeColumn ==
    /\ pc = "is_middle_income"
    /\ df' = [i \in DOMAIN df |->
                [df[i] EXCEPT
                    !.is_middle_income =
                        IsMiddleIncome(df[i].eq_hs_income.num,
                                       df[i].eq_hs_income.den)]]
    /\ pc' = "done"
    /\ UNCHANGED <<raw, miVars, mapVars, splitVars, runVars>>

NextDerive ==
    \/ FixValues
    \/ AvgIncomeColumn
    \/ ConsUnitColumn
    \/ EqHsIncomeColumn
    \/ IsMiddleIncomeColumn

SpecDerive == InitDerive /\ [][NextDerive]_vars

-----------------------------------------------------------------------------
(* Specification SpecSplit: one call of splitMultipleChoice (lines 93-99)  *)
(* on a frame holding the id column and one multi-select column.           *)

MaxPicks == 2

mult_choice_col_name == "investment_instrument"
new_col_name == mult_choice_col_name \o "_split"

Choices == { "Akcie", "Dluhopisy" }

\* what one respondent may have ticked: nothing, or up to MaxPicks entries
PickLists == UNION { [1..n -> Choices] : n \in 0..MaxPicks }

InitSplit ==
    /\ pc = "str_split"
    /\ picks \in UNION { [1..n -> PickLists] : n \in 1..MaxRows }
    /\ dataframe =
          [ columns |-> {"id", mult_choice_col_name},
            rows |-> [i \in DOMAIN picks |->
                        ("id" :> i) @@ (mult_choice_col_name :> Join(picks[i]))] ]
    /\ exploded = << >> /\ dummies = NoFrame
    /\ binary_matrix = NoMatrix /\ merged = NoFrame
    /\ MIIdle /\ MapIdle /\ DfIdle /\ RunIdle

\* line 95, on a column with a .str accessor
SplitStr ==
    /\ pc = "str_split"
    /\ HasStrAccessor(dataframe, mult_choice_col_name)
    /\ dataframe' =
          [ columns |-> dataframe.columns \cup {new_col_name},
            rows |-> [i \in DOMAIN dataframe.rows |->
                        (new_col_name :>
                            StrSplit(dataframe.rows[i][mult_choice_col_name]))
                        @@ dataframe.rows[i]] ]
    /\ pc' = "explode"
    /\ UNCHANGED <<picks, exploded, dummies, binary_matrix, merged,
                   miVars, mapVars, dfVars, runVars>>

\* line 95, on a column of NaN only: .str raises AttributeError
SplitStrRaises ==
    /\ pc = "str_split"
    /\ ~ HasStrAccessor(dataframe, mult_choice_col_name)
    /\ pc' = "raised"
    /\ UNCHANGED <<splitVars, miVars, mapVars, dfVars, runVars>>

\* line 96
ExplodeStep ==
    /\ pc = "explode"
    /\ exploded' = Explode(dataframe, new_col_name)
    /\ pc' = "get_dummies"
    /\ UNCHANGED <<picks, dataframe, dummies, binary_matrix, merged,
                   miVars, mapVars, dfVars, runVars>>

\* line 97
GetDummiesStep ==
    /\ pc = "get_dummies"
    /\ dummies' = GetDummies(exploded)
    /\ pc' = "groupby_sum"
    /\ UNCHANGED <<picks, dataframe, exploded, binary_matrix, merged,
                   miVars, mapVars, dfVars, runVars>>

\* line 98
GroupBySumStep ==
    /\ pc = "groupby_sum"
    /\ binary_matrix' = GroupBySum(dummies, dataframe)
    /\ pc' = "merge"
    /\ UNCHANGED <<picks, dataframe, exploded, dummies, merged,
                   miVars, mapVars, dfVars, runVars>>

\* line 99
MergeStep ==
    /\ pc = "merge"
    /\ merged' = Merge(dataframe, binary_matrix)
    /\ pc' = "returned"
    /\ UNCHANGED <<picks, dataframe, exploded, dummies, binary_matrix,
                   miVars, mapVars, dfVars, runVars>>

NextSplit ==
    \/ SplitStr
    \/ SplitStrRaises
    \/ ExplodeStep
    \/ GetDummiesStep
    \/ GroupBySumStep
    \/ MergeStep

SpecSplit == InitSplit /\ [][NextSplit]_vars

-----------------------------------------------------------------------------
(* Specification Spec: one run of edit_data.py or of statistic.py against  *)
(* the file system.  The table is abstracted to the kind of content a file *)
(* holds; the cp command started by os.popen is a process of its own.      *)

InputNames == { "data.csv", "out.csv", "missing.csv", "surveys" }

\* line 114: os.path.join(directory, f"backup_{filename}")
BackupPath(path) == "backup_" \o path

\* line 257: out.csv in the directory of the input
OutputPath == "out.csv"

\* statistic.py line 234
TablePath == "table_output.png"

Paths ==
    InputNames \cup { BackupPath(n) : n \in InputNames }
               \cup { OutputPath, TablePath }

File(data) == [kind |-> "file", data |-> data]
Directory == [kind |-> "dir", data |-> "none"]

\* "raw": a survey export with every expected column; "raw_short": an
\* export lacking an expected column; "cleaned": a table edit_data.py wrote
Contents == { "raw", "raw_short", "cleaned" }

ExistsAlways(path) == TRUE

\* os.path.exists
Exists(path) == fs[path].kind # "absent"

\* the file systems a run may start in: the typed path is a file, a
\* directory or nothing; a backup of an earlier run may be present
InitialFs(path, entry, old) ==
    [p \in Paths |->
        IF p = path THEN entry
        ELSE IF p = BackupPath(path) /\ old THEN File("stale")
        ELSE Absent]

Init ==
    /\ pc = "exists_check"
    /\ script \in {"edit_data", "statistic"}
    /\ file_path \in InputNames
    /\ original \in
          IF file_path = "missing.csv" THEN {Absent}
          ELSE IF file_path = "surveys" THEN {Directory}
          ELSE { File(c) : c \in Contents }
    /\ \E old \in BOOLEAN : fs = InitialFs(file_path, original, old)
    /\ console = << >> /\ cp = "none" /\ loaded = "none" /\ writes = {}
    /\ MIIdle /\ MapIdle /\ DfIdle /\ SplitIdle

\* edit_data.py lines 108-110, statistic.py lines 43-45
FileMissing ==
    /\ pc = "exists_check"
    /\ ~ Exists(file_path)
    /\ console' = Append(console, "File does not exist.")
    /\ pc' = "exited"
    /\ UNCHANGED <<script, file_path, fs, original, cp, loaded, writes,
                   miVars, mapVars, dfVars, splitVars>>

FileFound ==
    /\ pc = "exists_check"
    /\ Exists(file_path)
    /\ pc' = IF script = "edit_data" THEN "backup" ELSE "load"
    /\ UNCHANGED <<runVars, miVars, mapVars, dfVars, splitVars>>

\* edit_data.py lines 113-116: os.popen starts the shell command and
\* returns; nothing waits for the child
Backup ==
    /\ pc = "backup"
    /\ cp' = "started"
    /\ console' = Append(console, "Created a backup: " \o BackupPath(file_path))
    /\ pc' = "load"
    /\ UNCHANGED <<script, file_path, fs, original, loaded, writes,
                   miVars, mapVars, dfVars, splitVars>>

\* the child: cp opens the source and creates or truncates the target
CpOpen ==
    /\ cp = "started"
    /\ IF fs[file_path].kind = "file"
       THEN /\ fs' = [fs EXCEPT ![BackupPath(file_path)] = File("empty")]
            /\ writes' = writes \cup {BackupPath(file_path)}
            /\ cp' = "copying"
       ELSE /\ cp' = "failed"
            /\ UNCHANGED <<fs, writes>>
    /\ UNCHANGED <<pc, script, file_path, original, console, loaded,
                   miVars, mapVars, dfVars, splitVars>>

\* the child: cp copies what the source holds and ends
CpCopy ==
    /\ cp = "copying"
    /\ fs' = [fs EXCEPT ![BackupPath(file_path)] = fs[file_path]]
    /\ cp' = "done"
    /\ UNCHANGED <<pc, script, file_path, original, console, loaded, writes,
                   miVars, mapVars, dfVars, splitVars>>

\* edit_data.py line 119, statistic.py line 48
Load ==
    /\ pc = "load"
    /\ IF fs[file_path].kind = "file"
       THEN /\ loaded' = fs[file_path].data
            /\ pc' = IF script = "edit_data" THEN "transform" ELSE "analyze"
       ELSE /\ pc' = "failed"
            /\ UNCHANGED loaded
    /\ UNCHANGED <<script, file_path, fs, original, console, cp, writes,
                   miVars, mapVars, dfVars, splitVars>>

TransformErrorsIgnored(content) == "save"

\* the statement reached after lines 121-254: a column these statements
\* index (income_range on line 161, a multi-select column on line 193,
\* open_commentary on line 253) is absent from any table but a full survey
\* export; the lookup raises KeyError and the script ends there
AfterTransform(content) == IF content = "raw" THEN "save" ELSE "failed"

\* edit_data.py lines 121-254
Transform ==
    /\ pc = "transform"
    /\ pc' = AfterTransform(loaded)
    /\ loaded' = IF loaded = "raw" THEN "cleaned" ELSE loaded
    /\ UNCHANGED <<script, file_path, fs, original, console, cp, writes,
                   miVars, mapVars, dfVars, splitVars>>

\* edit_data.py lines 257-260
Save ==
    /\ pc = "save"
    /\ fs' = [fs EXCEPT ![OutputPath] = File(loaded)]
    /\ writes' = writes \cup {OutputPath}
    /\ console' = Append(console, "Data saved to " \o OutputPath)
    /\ pc' = "exited"
    /\ UNCHANGED <<script, file_path, original, cp, loaded,
                   miVars, mapVars, dfVars, splitVars>>

\* statistic.py lines 49-232: the columns of a cleaned table are indexed
Analyze ==
    /\ pc = "analyze"
    /\ IF loaded = "cleaned"
       THEN /\ console' = Append(console, "GENERAL DESCRIPTION")
            /\ pc' = "savefig"
       ELSE /\ pc' = "failed"
            /\ UNCHANGED console
    /\ UNCHANGED <<script, file_path, fs, original, cp, loaded, writes,
                   miVars, mapVars, dfVars, splitVars>>

\* statistic.py lines 234-309
SaveFig ==
    /\ pc = "savefig"
    /\ fs' = [fs EXCEPT ![TablePath] = File("table")]
    /\ writes' = writes \cup {TablePath}
    /\ console' = Append(console, "MOTIVATION")
    /\ pc' = "exited"
    /\ UNCHANGED <<script, file_path, original, cp, loaded,
                   miVars, mapVars, dfVars, splitVars>>

Next ==
    \/ FileMissing
    \/ FileFound
    \/ Backup
    \/ CpOpen
    \/ CpCopy
    \/ Load
    \/ Transform
    \/ Save
    \/ Analyze
    \/ SaveFig

Spec == Init /\ [][Next]_vars

-----------------------------------------------------------------------------
(* Specification SpecRecode: lines 173-177 on one row of the five columns  *)
(* the recoders rewrite.                                                   *)

\* the strings each recoder compares against
FrequencyAnswers == { "Ano, pravidelne", "Ano, prilezitostne" }
LossesAnswers == { "Ano, vyraznymi", "Ano, mensi ztraty" }
RiskEncounterAnswers ==
    { "Casto (vyhledavam nove prilezitosti, i kdyz jsou rizikove)",
      "Obcas (pokud mam pocit, ze riziko stoji za to)",
      "Zridka (jen pokud je to nezbytne)" }
DecisionAnswers ==
    { "Delam rychla rozhodnuti na zaklade prvnich dojmu",
      "Rozhoduji se uvazlive, ale nepotrebuji dlouhou dobu",
      "Zridka (jen pokud je to nezbytne)" }
ToleranceAnswers ==
    { "Rozhodne ano, jsem otevreny vyzvam i riziku samotnemu",
      "Obcas ano, pokud verim v potencialni prinosy",
      "Spise ne, riskuji jen minimalne" }

\* a missing cell and an answer no recoder compares against
OtherAnswers == { NaN, "Ne" }

RecodeRows ==
    [ investment_frequency : FrequencyAnswers \cup OtherAnswers,
      has_encountered_losses : LossesAnswers \cup OtherAnswers,
      risk_encounter_frequency : RiskEncounterAnswers \cup OtherAnswers,
      decision_strategy : DecisionAnswers \cup OtherAnswers,
      risk_tolerance : ToleranceAnswers \cup OtherAnswers ]

InitRecode ==
    /\ pc = "investment_frequency"
    /\ raw \in [1..1 -> RecodeRows]
    /\ df = raw
    /\ MIIdle /\ MapIdle /\ SplitIdle /\ RunIdle

\* line 173
RecodeInvestmentFrequency ==
    /\ pc = "investment_frequency"
    /\ df' = [i \in DOMAIN df |->
                [df[i] EXCEPT !.investment_frequency =
                    investmentFrequencyMapping(@)]]
    /\ pc' = "has_encountered_losses"
    /\ UNCHANGED <<raw, miVars, mapVars, splitVars, runVars>>

\* line 174
RecodeEncounteredLosses ==
    /\ pc = "has_encountered_losses"
    /\ df' = [i \in DOMAIN df |->
                [df[i] EXCEPT !.has_encountered_losses =
                    encounteredLossesMapping(@)]]
    /\ pc' = "risk_encounter_frequency"
    /\ UNCHANGED <<raw, miVars, mapVars, splitVars, runVars>>

\* line 175
RecodeRiskEncounterFrequency ==
    /\ pc = "risk_encounter_frequency"
    /\ df' = [i \in DOMAIN df |->
                [df[i] EXCEPT !.risk_encounter_frequency =
                    riskEncounterFrequencyMapping(@)]]
    /\ pc' = "decision_strategy"
    /\ UNCHANGED <<raw, miVars, mapVars, splitVars, runVars>>

\* line 176
RecodeDecisionStrategy ==
    /\ pc = "decision_strategy"
    /\ df' = [i \in DOMAIN df |->
                [df[i] EXCEPT !.decision_strategy =
                    decisionStrategyMapping(@)]]
    /\ pc' = "risk_tolerance"
    /\ UNCHANGED <<raw, miVars, mapVars, splitVars, runVars>>

\* line 177
RecodeRiskTolerance ==
    /\ pc = "risk_tolerance"
    /\ df' = [i \in DOMAIN df |->
                [df[i] EXCEPT !.risk_tolerance = riskToleranceMapping(@)]]
    /\ pc' = "done"
    /\ UNCHANGED <<raw, miVars, mapVars, splitVars, runVars>>

NextRecode ==
    \/ RecodeInvestmentFrequency
    \/ RecodeEncounteredLosses
    \/ RecodeRiskEncounterFrequency
    \/ RecodeDecisionStrategy
    \/ RecodeRiskTolerance

SpecRecode == InitRecode /\ [][NextRecode]_vars

-----------------------------------------------------------------------------
(* Specification SpecExpand: lines 119-121 and 191-254 on the id column,   *)
(* the six multi-select columns and open_commentary.  The answers to       *)
(* investment_reasons and investment_barriers vary; both questions offer   *)
(* the choice "Jine".                                                      *)

\* lines 95-99 as one function of the column name and the frame
WithSplitColumn(col, frame) ==
    [ columns |-> frame.columns \cup {col \o "_split"},
      rows |-> [i \in DOMAIN frame.rows |->
                  (col \o "_split" :> StrSplit(frame.rows[i][col]))
                  @@ frame.rows[i]] ]

splitMultipleChoice(col, frame) ==
    LET f == WithSplitColumn(col, frame)
    IN  Merge(f, GroupBySum(GetDummies(Explode(f, col \o "_split")), f))

\* line 192
MultiCols ==
    << "information_sources", "investment_instrument", "investment_reasons",
       "investment_barriers", "investment_inspiration", "investment_emotions" >>

\* the column the loop of line 192 takes after col, or the next statement
AfterColumn(col) ==
    LET k == CHOOSE j \in DOMAIN MultiCols : MultiCols[j] = col
    IN  IF k < Len(MultiCols) THEN MultiCols[k + 1] ELSE "rename"

\* lines 196-238
RenameMap ==
    ( "Informace si nevyhledavam" :> "info_source_none" @@
      "Od financniho poradce" :> "info_source_consulting" @@
      "Od rodiny nebo pratel" :> "info_source_family" @@
      "Z internetu (blogy, diskusni fora, zpravodajstvi)" :> "info_source_internet" @@
      "Z knih a odbornych publikaci" :> "info_source_books" @@
      "Akcie" :> "instrument_stock" @@
      "Dluhopisy" :> "instrument_bonds" @@
      "Jina aktiva" :> "instrument_other" @@
      "Komodity" :> "instrument_commodities" @@
      "Kryptomeny" :> "instrument_crypto" @@
      "Nemovitosti" :> "instrument_reality" @@
      "Podilove fondy" :> "instrument_funds" @@
      "Sporici produkty (sporici ucet, terminovane vklady)" :> "instrument_savings_account" @@
      "Dlouhodobe zhodnocovani majetku" :> "i_reasons_long_term_appr" @@
      "Doporuceni od rodiny nebo pratel" :> "i_reasons_recommend" @@
      "Investovani me zajima" :> "i_reasons_hobby" @@
      "Jine_x" :> "i_reasons_other" @@
      "Moznost ziskat vyssi vynosy nez ze sporeni" :> "i_reasons_better_than_savings" @@
      "Ochrana pred inflaci" :> "i_reasons_inflation_protection" @@
      "Rychle zbohatnuti" :> "i_reasons_get_rich_fast" @@
      "Zajisteni do budoucnosti" :> "i_reasons_future_precaution" @@
      "Jine_y" :> "i_barriers_other" @@
      "Nedostatek kapitalu k investovani" :> "i_barriers_capital" @@
      "Nedostatek znalosti o investovani" :> "i_barriers_knowledge" @@
      "Nedostatek casu na sledovani investic" :> "i_barriers_time" @@
      "Nizka duvera ve financni trhy" :> "i_barriers_trust" @@
      "Obecny nezajem o finance" :> "i_barriers_not_caring" @@
      "Pocit, ze je investovani prilis slozite" :> "i_barriers_difficulty" @@
      "Strach ze ztraty penez" :> "i_barriers_fear_of_losing_money" @@
      "Ziju v pritomnosti a penize si chci uzit ted" :> "i_barriers_enjoy_present" @@
      "Ano, mezi prateli nebo kolegy" :> "inspiration_friends" @@
      "Ano, sleduji inspirativni osobnosti" :> "inspiration_celebrities" @@
      "Ano, v rodine" :> "inspiration_family" @@
      "Ne, v mem okoli nikdo neinvestuje ani neplanuje" :> "inspiration_none" @@
      "Duvera a klid" :> "emotions_calm" @@
      "Lhostejnost" :> "emotions_dont_care" @@
      "Nadseni a zajem" :> "emotions_excitement" @@
      "Skepticismus vuci financnim trhum" :> "emotions_scepticism" @@
      "Strach a nejistota" :> "emotions_fear" )

\* DataFrame.rename(columns = map): a name the map lacks is kept
Renamed(map, c) == IF c \in DOMAIN map THEN map[c] ELSE c

RenameColumns(frame, map) ==
    [ columns |-> { Renamed(map, c) : c \in frame.columns },
      rows |-> [i \in DOMAIN frame.rows |->
                  [n \in { Renamed(map, c) : c \in frame.columns } |->
                      frame.rows[i][CHOOSE c \in frame.columns :
                                        Renamed(map, c) = n]]] ]

\* lines 241-254
DroppedColumns ==
    RangeOf(MultiCols) \cup { MultiCols[k] \o "_split" : k \in DOMAIN MultiCols }
                      \cup { "open_commentary" }

\* DataFrame.drop(columns = cols), every name of cols being a column
DropColumns(frame, cols) ==
    [ columns |-> frame.columns \ cols,
      rows |-> [i \in DOMAIN frame.rows |->
                  [n \in frame.columns \ cols |-> frame.rows[i][n]]] ]

\* what a respondent may tick in investment_reasons, investment_barriers
ReasonPicks ==
    { << >>, << "Jine" >>, << "Rychle zbohatnuti" >>,
      << "Jine", "Rychle zbohatnuti" >> }
BarrierPicks ==
    { << >>, << "Jine" >>, << "Strach ze ztraty penez" >>,
      << "Jine", "Strach ze ztraty penez" >> }

\* the cells of the four other questions, the same for every respondent
FixedPicks ==
    ( "information_sources" :> << "Od financniho poradce" >> @@
      "investment_instrument" :> << "Akcie", "Dluhopisy" >> @@
      "investment_inspiration" :> << "Ano, v rodine" >> @@
      "investment_emotions" :> << "Lhostejnost" >> )

\* the row of the file for one respondent
FileRow(reasons, barriers) ==
    [c \in RangeOf(MultiCols) \cup {"open_commentary"} |->
        IF c = "investment_reasons" THEN Join(reasons)
        ELSE IF c = "investment_barriers" THEN Join(barriers)
        ELSE IF c = "open_commentary" THEN << >>
        ELSE Join(FixedPicks[c])]

\* line 121: df["id"] = df.index + 1, the index of row i being i - 1
AssignId(i) == (i - 1) + 1

InitExpand ==
    /\ pc = "load"
    /\ \E n \in 1..MaxRows :
          picks \in [ investment_reasons : [1..n -> ReasonPicks],
                      investment_barriers : [1..n -> BarrierPicks] ]
    /\ raw = [ columns |-> RangeOf(MultiCols) \cup {"open_commentary"},
               rows |-> [i \in DOMAIN picks.investment_reasons |->
                           FileRow(picks.investment_reasons[i],
                                   picks.investment_barriers[i])] ]
    /\ df = NoFrame
    /\ dataframe = NoFrame /\ exploded = << >> /\ dummies = NoFrame
    /\ binary_matrix = NoMatrix /\ merged = NoFrame
    /\ MIIdle /\ MapIdle /\ RunIdle

\* lines 119-121
LoadTable ==
    /\ pc = "load"
    /\ df' = [ columns |-> raw.columns \cup {"id"},
               rows |-> [i \in DOMAIN raw.rows |->
                           ("id" :> AssignId(i)) @@ raw.rows[i]] ]
    /\ pc' = MultiCols[1]
    /\ UNCHANGED <<raw, miVars, mapVars, splitVars, runVars>>

\* lines 192-193, one turn of the loop
ExpandColumn ==
    /\ pc \in RangeOf(MultiCols)
    /\ HasStrAccessor(df, pc)
    /\ df' = splitMultipleChoice(pc, df)
    /\ pc' = AfterColumn(pc)
    /\ UNCHANGED <<raw, miVars, mapVars, splitVars, runVars>>

\* line 95 raising AttributeError on a column of NaN only
ExpandColumnRaises ==
    /\ pc \in RangeOf(MultiCols)
    /\ ~ HasStrAccessor(df, pc)
    /\ pc' = "failed"
    /\ UNCHANGED <<dfVars, miVars, mapVars, splitVars, runVars>>

\* lines 196-238
RenameDummies ==
    /\ pc = "rename"
    /\ df' = RenameColumns(df, RenameMap)
    /\ pc' = "drop"
    /\ UNCHANGED <<raw, miVars, mapVars, splitVars, runVars>>

\* lines 241-254
DropIntermediate ==
    /\ pc = "drop"
    /\ IF DroppedColumns \subseteq df.columns
       THEN /\ df' = DropColumns(df, DroppedColumns)
            /\ pc' = "done"
       ELSE /\ pc' = "failed"
            /\ UNCHANGED df
    /\ UNCHANGED <<raw, miVars, mapVars, splitVars, runVars>>

NextExpand ==
    \/ LoadTable
    \/ ExpandColumn
    \/ ExpandColumnRaises
    \/ RenameDummies
    \/ DropIntermediate

SpecExpand == InitExpand /\ [][NextExpand]_vars

-----------------------------------------------------------------------------
(* Claims                                                                  *)

\* C1 as stated: the flag is 1 iff 0.75 * 25968 <= x < 4 * 25968, lower
\* bound inclusive.
C1_Original ==
    pc = "done" =>
        (flag = 1 <=> (x.num >= 19476 * x.den /\ x.num < 103872 * x.den))

\* C1 amended: the flag is 1 iff 0.75 * 25968 < x < 4 * 25968 (both bounds
\* exclusive), and 0 otherwise.
C1_MiddleIncomeBand ==
    pc = "done" =>
        /\ flag \in {0, 1}
        /\ flag = 1 <=> (x.num > 19476 * x.den /\ x.num < 103872 * x.den)

C1_Witness == pc = "done" /\ flag = 0 /\ x.num = 19476 * x.den /\ x.den > 1

\* C2: x equal to 19476 gets flag 0; x strictly between 19476 and 103872
\* gets flag 1, also just below 103872; x at or above 103872 gets flag 0.
C2_BoundaryCases ==
    pc = "done" =>
        /\ x.num = 19476 * x.den => flag = 0
        /\ (19476 * x.den < x.num /\ x.num < 103872 * x.den) => flag = 1
        /\ x.num >= 103872 * x.den => flag = 0

C2_Witness ==
    pc = "done" /\ flag = 1 /\ x.num = 103872 * x.den - 1 /\ x.den > 1

\* The point values documented for IncomeBrackets, in bracket order.
C3_Documented == << 10000, 25000, 35000, 45000, 60000, 80000, 105000 >>

\* C3: getAvgForIncomeRange returns the documented value for each of the
\* seven bracket strings and 140000 for every other input, a missing value
\* included; it returns a number for every input.
C3_AvgIncomeTable ==
    pc \in {"avg_savings", "done"} =>
        /\ avg_income \in Int
        /\ \A k \in 1..7 :
              income_in = IncomeBrackets[k] => avg_income = C3_Documented[k]
        /\ income_in \notin RangeOf(IncomeBrackets) => avg_income = 140000

C3_Witness == pc = "done" /\ avg_income = 140000 /\ income_in = NaN

\* C4 as stated: seven savings-bracket strings are matched explicitly, each
\* returning its own constant, and every other input returns 9000.
C4_Original ==
    pc = "done" =>
        /\ Len(SavingBrackets) = 7
        /\ saving_in \notin RangeOf(SavingBrackets) <=> avg_savings = 9000

\* C4 amended: six savings-bracket strings are matched explicitly, returning
\* -1000, 0, 750, 2000, 4000, 6000 in order; every other input (an answer
\* above the last bracket, a missing value) returns 9000.
C4_AvgSavingsTable ==
    pc = "done" =>
        /\ Len(SavingBrackets) = 6
        /\ saving_in = SavingBrackets[1] => avg_savings = 0 - 1000
        /\ saving_in = SavingBrackets[2] => avg_savings = 0
        /\ saving_in = SavingBrackets[3] => avg_savings = 750
        /\ saving_in = SavingBrackets[4] => avg_savings = 2000
        /\ saving_in = SavingBrackets[5] => avg_savings = 4000
        /\ saving_in = SavingBrackets[6] => avg_savings = 6000
        /\ saving_in \notin RangeOf(SavingBrackets) => avg_savings = 9000

C4_Witness ==
    pc = "done" /\ avg_savings = 9000 /\ saving_in = "vice nez 7 000 Kc"

\* the statements after line 180
AfterConsUnit == {"eq_hs_income", "is_middle_income", "done"}

\* C5: cons_unit = 1 + 0.5 * (adults - 1) + 0.3 * children over the corrected
\* counts (tenths: adults 1, children 0 gives 10; adults 3, children 2 gives
\* 26); for non-negative raw counts the corrected adult count is >= 1 and
\* cons_unit >= 1.
C5_ConsUnit ==
    pc \in AfterConsUnit =>
        \A i \in DOMAIN df :
            LET adults == IF raw[i].household_members_gt13 = 0
                          THEN 1 ELSE raw[i].household_members_gt13
                children == raw[i].household_members_le13
            IN  /\ df[i].household_members_gt13 = adults
                /\ adults >= 1
                /\ df[i].cons_unit = 10 + 5 * (adults - 1) + 3 * children
                /\ df[i].cons_unit >= 10
                /\ (adults = 1 /\ children = 0) => df[i].cons_unit = 10
                /\ (adults = 3 /\ children = 2) => df[i].cons_unit = 26

C5_Witness ==
    /\ pc = "done"
    /\ \E i \in DOMAIN df :
          /\ raw[i].household_members_gt13 = 3
          /\ raw[i].household_members_le13 = 2
          /\ df[i].cons_unit = 26
    /\ \E i \in DOMAIN df :
          raw[i].household_members_gt13 = 0 /\ df[i].cons_unit >= 10

\* the statements that read household_members_gt13 or a column derived from
\* it, and the end of the run
ReadsAdults == {"cons_unit", "eq_hs_income", "is_middle_income", "done"}

\* C6: when cons_unit, eq_hs_income and is_middle_income are computed no row
\* holds an adult count of 0 (a raw 0 has become 1), and applying the fix
\* again changes nothing (1 stays 1).
C6_FixBeforeDerived ==
    /\ pc \in ReadsAdults =>
          \A i \in DOMAIN df :
              /\ df[i].household_members_gt13 # 0
              /\ raw[i].household_members_gt13 = 0
                    => df[i].household_members_gt13 = 1
              /\ raw[i].household_members_gt13 # 0
                    => df[i].household_members_gt13 = raw[i].household_members_gt13
              /\ FixAdults(df[i].household_members_gt13)
                    = df[i].household_members_gt13
    /\ pc \in AfterConsUnit =>
          \A i \in DOMAIN df :
              df[i].cons_unit = ConsUnit(df[i].household_members_gt13,
                                         df[i].household_members_le13)
    /\ FixAdults(1) = 1

C6_Witness ==
    /\ pc = "done"
    /\ \E i \in DOMAIN df :
          /\ raw[i].household_members_gt13 = 0
          /\ df[i].household_members_gt13 = 1
          /\ raw[i].household_members_le13 = 1
          /\ df[i].income_range = "20 000 Kc - 30 000 Kc"
          /\ df[i].cons_unit = 13
          /\ df[i].is_middle_income = 0
    /\ \E i \in DOMAIN df :
          raw[i].household_members_gt13 = 1 /\ df[i].household_members_gt13 = 1

\* S_i, the set of choices respondent i ticked, and their union
Selected(i) == RangeOf(picks[i])
AllSelected == UNION { Selected(i) : i \in DOMAIN picks }

\* no respondent lists a choice twice
PicksAreSets == \A i \in DOMAIN picks : Cardinality(Selected(i)) = Len(picks[i])

\* the frame returned has one row per respondent, in order, with one column
\* per ticked choice next to the frame's own columns
OneRowPerRespondent ==
    /\ Len(merged.rows) = Len(picks)
    /\ \A i \in DOMAIN picks : merged.rows[i]["id"] = i
    /\ merged.columns = dataframe.columns \cup AllSelected

\* C7: for every batch of subsets S_i, empty ones included (for any or all
\* respondents), the call returns a table with one row per respondent and
\* exactly one indicator column per value of the union, 1 iff c is in S_i.
C7_Original ==
    (pc \in {"returned", "raised"} /\ PicksAreSets) =>
        /\ pc = "returned"
        /\ OneRowPerRespondent
        /\ \A i \in DOMAIN picks : \A c \in AllSelected :
              merged.rows[i][c] = IF c \in Selected(i) THEN 1 ELSE 0

\* C8: every indicator of the expanded table is 0 or 1, also for a
\* respondent whose cell lists a choice more than once.
C8_Original ==
    pc = "returned" =>
        \A i \in DOMAIN merged.rows : \A c \in AllSelected :
            merged.rows[i][c] \in {0, 1}

\* C9: when the typed path does not exist, the run prints the message and
\* ends at once: no cp is started, nothing is loaded and no file is written
\* (no backup_ file is created or changed, no out.csv, no table_output.png).
C9_MissingFileStops ==
    original.kind = "absent" =>
        /\ pc \in {"exists_check", "exited"}
        /\ pc = "exited" => console = << "File does not exist." >>
        /\ pc = "exists_check" => console = << >>
        /\ cp = "none"
        /\ loaded = "none"
        /\ writes = {}
        /\ fs[BackupPath(file_path)] \in {Absent, File("stale")}
        /\ fs[OutputPath].kind = "absent"
        /\ fs[TablePath].kind = "absent"
        /\ \E old \in BOOLEAN : fs = InitialFs(file_path, original, old)

C9_Witness ==
    /\ original.kind = "absent" /\ pc = "exited" /\ script = "statistic"
    /\ console = << "File does not exist." >>

\* the statements of edit_data.py after the backup step, and its ends
AfterBackup == {"load", "transform", "save", "exited", "failed"}

\* C10: in a transformer run on an existing input file, once the backup
\* step is over the backup file exists and holds the original content of the
\* input, before the load and every later step, also when a later step
\* fails.
C10_Original ==
    (script = "edit_data" /\ original.kind = "file" /\ pc \in AfterBackup) =>
        fs[BackupPath(file_path)] = original

\* out.csv as it was when the run started
OutputAtStart == IF file_path = OutputPath THEN original ELSE Absent

\* C11: a transformer run writes out.csv only as its last step, after every
\* other step succeeded: a run that ended without failing on an existing
\* input has persisted the cleaned table, and in every other state, a failed
\* run (a missing column, an unreadable input) included, out.csv is neither
\* created nor modified.
C11_AllOrNothing ==
    script = "edit_data" =>
        /\ OutputPath \in writes =>
              /\ pc = "exited" /\ original = File("raw")
              /\ fs[OutputPath] = File("cleaned")
        /\ OutputPath \notin writes => fs[OutputPath] = OutputAtStart
        /\ pc = "failed" => OutputPath \notin writes
        /\ (pc = "exited" /\ original.kind # "absent") => OutputPath \in writes

C11_Witness ==
    /\ script = "edit_data" /\ pc = "failed" /\ file_path = OutputPath
    /\ original = File("raw_short") /\ loaded = "raw_short"
    /\ cp = "done" /\ fs[OutputPath] = original

\* the code documented for each expected answer
C12_FrequencyCodes == ( "Ano, pravidelne" :> 2 @@ "Ano, prilezitostne" :> 1 )

C12_LossesCodes == ( "Ano, vyraznymi" :> 2 @@ "Ano, mensi ztraty" :> 1 )

C12_ToleranceCodes ==
    ( "Rozhodne ano, jsem otevreny vyzvam i riziku samotnemu" :> 3 @@
      "Obcas ano, pokud verim v potencialni prinosy" :> 2 @@
      "Spise ne, riskuji jen minimalne" :> 1 )

C12_RiskCodes ==
    ( "Casto (vyhledavam nove prilezitosti, i kdyz jsou rizikove)" :> 3 @@
      "Obcas (pokud mam pocit, ze riziko stoji za to)" :> 2 @@
      "Zridka (jen pokud je to nezbytne)" :> 1 )

C12_DecisionCodes ==
    ( "Delam rychla rozhodnuti na zaklade prvnich dojmu" :> 3 @@
      "Rozhoduji se uvazlive, ale nepotrebuji dlouhou dobu" :> 1 @@
      "Zridka (jen pokud je to nezbytne)" :> 0 )

\* the result is the answer's own code, or default outside the expected set
C12_Recoded(answer, code, codes, default) ==
    /\ code \in Int
    /\ answer \in DOMAIN codes => code = codes[answer]
    /\ answer \notin DOMAIN codes => code = default

\* the lowest code of a recoder's scale: of its answers' codes and default
C12_Lowest(codes, default) ==
    CHOOSE m \in {default} \cup { codes[a] : a \in DOMAIN codes } :
        \A n \in {default} \cup { codes[a] : a \in DOMAIN codes } : m <= n

\* C12 as stated: every recoder returns a code for every input, each
\* expected string its own, and every other input the recoder's default,
\* which is the lowest code of its scale.
C12_Original ==
    pc = "done" =>
        \A i \in DOMAIN df :
            /\ C12_Recoded(raw[i].investment_frequency, df[i].investment_frequency,
                           C12_FrequencyCodes, C12_Lowest(C12_FrequencyCodes, 0))
            /\ C12_Recoded(raw[i].has_encountered_losses, df[i].has_encountered_losses,
                           C12_LossesCodes, C12_Lowest(C12_LossesCodes, 0))
            /\ C12_Recoded(raw[i].risk_encounter_frequency,
                           df[i].risk_encounter_frequency,
                           C12_RiskCodes, C12_Lowest(C12_RiskCodes, 0))
            /\ C12_Recoded(raw[i].decision_strategy, df[i].decision_strategy,
                           C12_DecisionCodes, C12_Lowest(C12_DecisionCodes, 2))
            /\ C12_Recoded(raw[i].risk_tolerance, df[i].risk_tolerance,
                           C12_ToleranceCodes, C12_Lowest(C12_ToleranceCodes, 0))

\* C12 amended: every recoder returns a code for every input, each expected
\* string its own; every other input gets the default, which is 0, the
\* lowest code, for four recoders and 2 for decisionStrategyMapping, whose
\* lowest code is 0.
C12_TotalRecoders ==
    pc = "done" =>
        \A i \in DOMAIN df :
            /\ C12_Recoded(raw[i].investment_frequency, df[i].investment_frequency,
                           C12_FrequencyCodes, 0)
            /\ C12_Recoded(raw[i].has_encountered_losses, df[i].has_encountered_losses,
                           C12_LossesCodes, 0)
            /\ C12_Recoded(raw[i].risk_encounter_frequency,
                           df[i].risk_encounter_frequency, C12_RiskCodes, 0)
            /\ C12_Recoded(raw[i].decision_strategy, df[i].decision_strategy,
                           C12_DecisionCodes, 2)
            /\ C12_Recoded(raw[i].risk_tolerance, df[i].risk_tolerance,
                           C12_ToleranceCodes, 0)
            /\ C12_Lowest(C12_DecisionCodes, 2) = 0

C12_Witness ==
    /\ pc = "done"
    /\ raw[1].decision_strategy = NaN /\ df[1].decision_strategy = 2
    /\ raw[1].risk_tolerance = "Ne" /\ df[1].risk_tolerance = 0
    /\ raw[1].investment_frequency = "Ano, pravidelne"
    /\ df[1].investment_frequency = 2

\* the choices respondent i ticked in question q, and those observed in q
Ticked(q, i) ==
    IF q \in DOMAIN picks THEN RangeOf(picks[q][i]) ELSE RangeOf(FixedPicks[q])
Observed(q) == UNION { Ticked(q, i) : i \in DOMAIN raw.rows }

\* the name the renaming pass gives the indicator of choice c of question
\* q: the two questions that offer "Jine" get i_reasons_other and
\* i_barriers_other, every other choice the entry of its own string
IndicatorColumn(q, c) ==
    IF c = "Jine"
    THEN (IF q = "investment_reasons" THEN "i_reasons_other"
          ELSE "i_barriers_other")
    ELSE RenameMap[c]

\* C13: after the six expansions and the renaming pass, every (question,
\* choice) pair observed in the batch has its own indicator column, which
\* for each respondent is 1 exactly when the respondent ticked that choice
\* in that question, whether "Jine" is observed in both of investment_reasons
\* and investment_barriers or in one of them only; i_reasons_other is the
\* indicator of investment_reasons and i_barriers_other that of
\* investment_barriers.
C13_Original ==
    pc = "done" =>
        \A k \in DOMAIN MultiCols : \A c \in Observed(MultiCols[k]) :
            /\ IndicatorColumn(MultiCols[k], c) \in df.columns
            /\ \A i \in DOMAIN df.rows :
                  df.rows[i][IndicatorColumn(MultiCols[k], c)] =
                      IF c \in Ticked(MultiCols[k], i) THEN 1 ELSE 0

\* C14: the N rows get the identifiers 1..N by row position at load; after
\* every later step (each of the six expansions and merges, the renaming of
\* the indicator columns, the final drop, a failed step included) the table
\* holds each identifier 1..N exactly once, row i still carries identifier i
\* and every loaded column still in the table holds the value it was loaded
\* with.
C14_IdentifiersKept ==
    pc # "load" =>
        /\ "id" \in df.columns
        /\ Len(df.rows) = Len(raw.rows)
        /\ \A n \in 1..Len(raw.rows) :
              Cardinality({ i \in DOMAIN df.rows : df.rows[i]["id"] = n }) = 1
        /\ \A i \in DOMAIN df.rows :
              /\ df.rows[i]["id"] = i
              /\ \A c \in raw.columns \cap df.columns :
                    df.rows[i][c] = raw.rows[i][c]

\* a finished run over two respondents, the first of whom ticked nothing in
\* investment_reasons and the second nothing in investment_barriers
C14_Witness ==
    /\ pc = "done"
    /\ Len(raw.rows) >= 2
    /\ picks.investment_reasons[1] = << >>
    /\ picks.investment_barriers[2] = << >>
    /\ df.rows[1]["id"] = 1 /\ df.rows[2]["id"] = 2
    /\ df.rows[2]["i_reasons_get_rich_fast"] = 1
    /\ "investment_reasons" \notin df.columns

====
